---- MODULE Spec2Model ----
(***************************************************************************)
(* Model of seq_grep: grep.py (multi-term IUPAC search over FASTQ          *)
(* archives, sequential and parallel strategies) and ID_finder.py (lookup  *)
(* of read identifiers and their barcode tags).                            *)
(*                                                                         *)
(* Text is modelled as a tuple of one-character strings.  A line of the    *)
(* archive keeps its trailing "\n".                                        *)
(***************************************************************************)
EXTENDS Integers, Sequences, FiniteSets, TLC

\* ------------------------------------------------------------------ bounds
MaxRecords == 2
MaxSeqLen == 2

\* --------------------------------------------------------------- characters
UpperLetters == <<"A","C","G","T","R","Y","S","W","K","M","B","D","H","V","N","X","U">>
LowerLetters == <<"a","c","g","t","r","y","s","w","k","m","b","d","h","v","n","x","u">>

\* str.upper() on one character
upper(c) ==
  IF \E i \in DOMAIN LowerLetters : LowerLetters[i] = c
  THEN UpperLetters[CHOOSE i \in DOMAIN LowerLetters : LowerLetters[i] = c]
  ELSE c

\* case folding used by re.IGNORECASE on one character
lower(c) ==
  IF \E i \in DOMAIN UpperLetters : UpperLetters[i] = c
  THEN LowerLetters[CHOOSE i \in DOMAIN UpperLetters : UpperLetters[i] = c]
  ELSE c

\* characters str.strip() and str.split(None) treat as whitespace
Whitespace == {" ", "\t", "\n", "\r"}

\* ANSI colour codes, character by character ("ESC" stands for \033)
COLOR_RED == <<"ESC","[","9","1","m">>
COLOR_BLUE == <<"ESC","[","9","4","m">>
COLOR_GREEN == <<"ESC","[","9","2","m">>
COLOR_YELLOW == <<"ESC","[","9","3","m">>
COLOR_RESET == <<"ESC","[","0","m">>

\* ------------------------------------------------------------------- tables
IUPAC_MAP ==
  ( "R" :> <<"[","A","|","G","]">> @@ "Y" :> <<"[","C","|","T","]">> @@
    "S" :> <<"[","G","|","C","]">> @@ "W" :> <<"[","A","|","T","]">> @@
    "K" :> <<"[","G","|","T","]">> @@ "M" :> <<"[","A","|","C","]">> @@
    "B" :> <<"[","C","|","G","|","T","]">> @@
    "D" :> <<"[","A","|","G","|","T","]">> @@
    "H" :> <<"[","A","|","C","|","T","]">> @@
    "V" :> <<"[","A","|","C","|","G","]">> @@
    "N" :> <<"[","A","|","C","|","G","|","T","]">> @@
    "A" :> <<"A">> @@ "C" :> <<"C">> @@ "G" :> <<"G">> @@ "T" :> <<"T">> )

\* the complement table with the entries of H and V exchanged
IUPAC_COMPLEMENT_Swapped ==
  ( "A" :> "T" @@ "T" :> "A" @@ "C" :> "G" @@ "G" :> "C" @@
    "R" :> "Y" @@ "Y" :> "R" @@ "S" :> "S" @@ "W" :> "W" @@
    "K" :> "M" @@ "M" :> "K" @@ "B" :> "V" @@ "D" :> "H" @@
    "H" :> "B" @@ "V" :> "D" @@ "N" :> "N" )

IUPAC_COMPLEMENT ==
  ( "A" :> "T" @@ "T" :> "A" @@ "C" :> "G" @@ "G" :> "C" @@
    "R" :> "Y" @@ "Y" :> "R" @@ "S" :> "S" @@ "W" :> "W" @@
    "K" :> "M" @@ "M" :> "K" @@ "B" :> "V" @@ "D" :> "H" @@
    "H" :> "D" @@ "V" :> "B" @@ "N" :> "N" )

\* ------------------------------------------------------------ pure functions
get_complement_base(base) ==
  IF upper(base) \in DOMAIN IUPAC_COMPLEMENT
  THEN IUPAC_COMPLEMENT[upper(base)]
  ELSE base

reverse_complement_sequence(sequence) ==
  [i \in 1..Len(sequence) |-> get_complement_base(sequence[Len(sequence) + 1 - i])]

\* characters re.escape prefixes with a backslash
RE_SPECIAL == {"(", ")", "[", "]", "{", "}", "?", "*", "+", "-", "|", "^", "$",
               "\\", ".", "&", "~", "#", " ", "\t", "\n", "\r"}

re_escape(c) == IF c \in RE_SPECIAL THEN <<"\\", c>> ELSE <<c>>

RECURSIVE convert_to_regex(_)
convert_to_regex(sequence) ==
  IF sequence = <<>> THEN <<>>
  ELSE LET base == Head(sequence)
       IN (IF upper(base) \in DOMAIN IUPAC_MAP
           THEN IUPAC_MAP[upper(base)]
           ELSE re_escape(base)) \o convert_to_regex(Tail(sequence))

\* re.compile(p, re.IGNORECASE) for the pattern strings convert_to_regex
\* produces: a sequence of atoms, each the set of characters it accepts.
\* "[...]" is a character class holding every character between the
\* brackets, "\c" is the literal c, any other character is a literal.
RECURSIVE re_compile(_)
re_compile(p) ==
  IF p = <<>> THEN <<>>
  ELSE IF Head(p) = "["
  THEN LET close == CHOOSE k \in 2..Len(p) :
                      /\ p[k] = "]"
                      /\ \A j \in 2..(k - 1) : p[j] # "]"
       IN <<{p[j] : j \in 2..(close - 1)}>> \o re_compile(SubSeq(p, close + 1, Len(p)))
  ELSE IF Head(p) = "\\"
  THEN <<{p[2]}>> \o re_compile(SubSeq(p, 3, Len(p)))
  ELSE <<{Head(p)}>> \o re_compile(Tail(p))

\* one atom against one character, ignoring case
atom_matches(atom, x) == \E c \in atom : lower(c) = lower(x)

\* the compiled pattern matches text at position i
match_at(atoms, text, i) ==
  /\ i >= 1
  /\ i + Len(atoms) - 1 <= Len(text)
  /\ \A j \in 1..Len(atoms) : atom_matches(atoms[j], text[i + j - 1])

\* compiled_pattern.search(text): unanchored
re_search(atoms, text) == \E i \in 1..(Len(text) + 1) : match_at(atoms, text, i)

\* compiled_pattern.sub(color_replacer, text): leftmost non-overlapping
\* occurrences are wrapped in color ... COLOR_RESET
RECURSIVE re_sub_from(_, _, _, _)
re_sub_from(atoms, color, text, i) ==
  IF i > Len(text)
  THEN (IF Len(atoms) = 0 THEN color \o COLOR_RESET ELSE <<>>)
  ELSE IF Len(atoms) = 0
  THEN color \o COLOR_RESET \o <<text[i]>> \o re_sub_from(atoms, color, text, i + 1)
  ELSE IF match_at(atoms, text, i)
  THEN color \o SubSeq(text, i, i + Len(atoms) - 1) \o COLOR_RESET
       \o re_sub_from(atoms, color, text, i + Len(atoms))
  ELSE <<text[i]>> \o re_sub_from(atoms, color, text, i + 1)

\* str.strip()
RECURSIVE lstrip(_)
lstrip(s) == IF s # <<>> /\ Head(s) \in Whitespace THEN lstrip(Tail(s)) ELSE s

RECURSIVE rstrip(_)
rstrip(s) ==
  IF s # <<>> /\ s[Len(s)] \in Whitespace THEN rstrip(SubSeq(s, 1, Len(s) - 1)) ELSE s

strip(s) == rstrip(lstrip(s))

\* s.split(None, 1)[0] for a stripped, non-empty s
RECURSIVE first_token(_)
first_token(s) ==
  IF s = <<>> \/ Head(s) \in Whitespace THEN <<>>
  ELSE <<Head(s)>> \o first_token(Tail(s))

startswith_at(s) == s # <<>> /\ Head(s) = "@"

\* int -> decimal text (f"{line_number}")
Digits == <<"0","1","2","3","4","5","6","7","8","9">>

decimal(n) ==
  IF n < 10 THEN <<Digits[n + 1]>>
  ELSE <<Digits[(n \div 10) + 1], Digits[(n % 10) + 1]>>

\* ------------------------------------------------ command line (__main__)
color_groups == <<COLOR_RED, COLOR_BLUE, COLOR_GREEN, COLOR_YELLOW>>

\* required_matches as built from the term arguments; the i-th given term
\* sits in the first slot of the i-th colour group
build_required_matches(terms, reverse_complement) ==
  [i \in 1..Len(terms) |->
     LET term_fwd == strip(terms[i])
         pattern_strings ==
           <<convert_to_regex(term_fwd)>> \o
           (IF reverse_complement
            THEN <<convert_to_regex(reverse_complement_sequence(term_fwd))>>
            ELSE <<>>)
     IN [term |-> term_fwd,
         color |-> color_groups[((i - 1) % 4) + 1],
         compiled_patterns |->
           [k \in 1..Len(pattern_strings) |-> re_compile(pattern_strings[k])],
         total_individual_count |-> 0]]

\* ------------------------------------------------------- matching engine
\* a hit test that looks at the forward matcher only
is_individual_hit_ForwardOnly(patterns, k, text) ==
  k <= Len(patterns) /\ re_search(patterns[k], text)

\* for p_compiled in match_data['compiled_patterns']: if search: hit; break
RECURSIVE is_individual_hit(_, _, _)
is_individual_hit(patterns, k, text) ==
  IF k > Len(patterns) THEN FALSE
  ELSE IF re_search(patterns[k], text) THEN TRUE
  ELSE is_individual_hit(patterns, k + 1, text)

RECURSIVE highlight_patterns(_, _, _, _)
highlight_patterns(line, color, patterns, k) ==
  IF k > Len(patterns) THEN line
  ELSE highlight_patterns(re_sub_from(patterns[k], color, line, 1), color, patterns, k + 1)

RECURSIVE highlight_terms(_, _, _)
highlight_terms(line, required_matches, i) ==
  IF i > Len(required_matches) THEN line
  ELSE highlight_terms(
         highlight_patterns(line, required_matches[i].color,
                            required_matches[i].compiled_patterns, 1),
         required_matches, i + 1)

highlight_matches(line, required_matches) ==
  strip(highlight_terms(line, required_matches, 1))

\* one pass of "for match_data in required_matches" of the sequential
\* strategy over one sequence line: the counters are updated in place
RECURSIVE seq_scan_terms(_, _, _, _)
seq_scan_terms(required_matches, i, text, all_present) ==
  IF i > Len(required_matches)
  THEN [matches |-> required_matches, all_logical_terms_present |-> all_present]
  ELSE IF is_individual_hit(required_matches[i].compiled_patterns, 1, text)
  THEN seq_scan_terms(
         [required_matches EXCEPT ![i].total_individual_count = @ + 1],
         i + 1, text, all_present)
  ELSE seq_scan_terms(required_matches, i + 1, text, FALSE)

\* a pass in which the last term alone decides all_logical_terms_present
RECURSIVE batch_scan_terms_LastTermDecides(_, _, _, _, _)
batch_scan_terms_LastTermDecides(required_matches_lite, i, text, counts, all_present) ==
  IF i > Len(required_matches_lite)
  THEN [counts |-> counts, all_logical_terms_present |-> all_present]
  ELSE IF is_individual_hit(required_matches_lite[i].compiled_patterns, 1, text)
  THEN batch_scan_terms_LastTermDecides(
         required_matches_lite, i + 1, text,
         [counts EXCEPT ![required_matches_lite[i].term] = @ + 1], TRUE)
  ELSE batch_scan_terms_LastTermDecides(required_matches_lite, i + 1, text, counts, FALSE)

\* the same pass in the worker: the counts live in a dict keyed by term text
RECURSIVE batch_scan_terms(_, _, _, _, _)
batch_scan_terms(required_matches_lite, i, text, counts, all_present) ==
  IF i > Len(required_matches_lite)
  THEN [counts |-> counts, all_logical_terms_present |-> all_present]
  ELSE IF is_individual_hit(required_matches_lite[i].compiled_patterns, 1, text)
  THEN batch_scan_terms(
         required_matches_lite, i + 1, text,
         [counts EXCEPT ![required_matches_lite[i].term] = @ + 1], all_present)
  ELSE batch_scan_terms(required_matches_lite, i + 1, text, counts, FALSE)

RECURSIVE search_reads(_, _, _, _, _)
search_reads(read_batch, r, required_matches_lite, found_matches, counts) ==
  IF r > Len(read_batch)
  THEN [found_matches |-> found_matches, individual_hits_counts |-> counts]
  ELSE LET line_stripped == strip(read_batch[r].sequence)
           scan == batch_scan_terms(required_matches_lite, 1, line_stripped, counts, TRUE)
       IN search_reads(
            read_batch, r + 1, required_matches_lite,
            IF scan.all_logical_terms_present
            THEN Append(found_matches,
                        [header_id |-> read_batch[r].header_id,
                         text |-> highlight_matches(line_stripped, required_matches_lite)])
            ELSE found_matches,
            scan.counts)

\* the worker function
search_read_batch(read_batch, required_matches_lite) ==
  search_reads(read_batch, 1, required_matches_lite, <<>>,
               [t \in {required_matches_lite[i].term : i \in DOMAIN required_matches_lite}
                  |-> 0])

\* required_matches_lite: term, color and patterns, without the counter
lite_of(required_matches) ==
  [i \in DOMAIN required_matches |->
     [term |-> required_matches[i].term,
      color |-> required_matches[i].color,
      compiled_patterns |-> required_matches[i].compiled_patterns]]

\* ------------------------------------------------------------ record reader
\* a reader that forgets the partly filled batch at the end of the file
RECURSIVE read_fastq_batch_DropsLast(_, _, _, _, _)
read_fastq_batch_DropsLast(f, pos, batch_size, k, current_batch) ==
  IF k = batch_size
  THEN [status |-> "yield", batch |-> current_batch, pos |-> pos]
  ELSE LET n == IF Len(f) - pos < 4 THEN Len(f) - pos ELSE 4
           lines == SubSeq(f, pos + 1, pos + n)
       IN IF n = 0
          THEN [status |-> "stop", batch |-> <<>>, pos |-> pos]
          ELSE IF n = 1
          THEN [status |-> "raise", batch |-> <<>>, pos |-> pos + n]
          ELSE read_fastq_batch_DropsLast(
                 f, pos + n, batch_size, k + 1,
                 Append(current_batch,
                        [header_id |-> IF startswith_at(strip(lines[1]))
                                       THEN first_token(strip(lines[1]))
                                       ELSE <<"U","n","k","n","o","w","n">>,
                         sequence |-> lines[2]]))

\* one next() of the generator reading archive lines f from position pos:
\* "yield" with a batch, "stop" at the end, "raise" on lines[1] of a
\* one-line remainder
RECURSIVE read_fastq_batch(_, _, _, _, _)
read_fastq_batch(f, pos, batch_size, k, current_batch) ==
  IF k = batch_size
  THEN [status |-> "yield", batch |-> current_batch, pos |-> pos]
  ELSE LET n == IF Len(f) - pos < 4 THEN Len(f) - pos ELSE 4
           lines == SubSeq(f, pos + 1, pos + n)
       IN IF n = 0
          THEN [status |-> IF current_batch # <<>> THEN "yield" ELSE "stop",
                batch |-> current_batch, pos |-> pos]
          ELSE IF n = 1
          THEN [status |-> "raise", batch |-> <<>>, pos |-> pos + n]
          ELSE LET header == strip(lines[1])
                   header_id == IF startswith_at(header)
                                THEN first_token(header)
                                ELSE <<"U","n","k","n","o","w","n">>
               IN read_fastq_batch(
                    f, pos + n, batch_size, k + 1,
                    Append(current_batch,
                           [header_id |-> header_id, sequence |-> lines[2]]))

\* --------------------------------------------------------- parallel driver
\* "for term, count in individual_hits_counts.items()": the count of a term
\* text goes to the first entry of required_matches with that text
first_with_term(required_matches, term) ==
  CHOOSE i \in DOMAIN required_matches :
    /\ required_matches[i].term = term
    /\ \A j \in 1..(i - 1) : required_matches[j].term # term

\* a merge that stores a batch's count instead of adding it
merge_counts_Overwrite(required_matches, individual_hits_counts) ==
  [i \in DOMAIN required_matches |->
     IF i = first_with_term(required_matches, required_matches[i].term)
     THEN [required_matches[i] EXCEPT
             !.total_individual_count = individual_hits_counts[required_matches[i].term]]
     ELSE required_matches[i]]

merge_counts(required_matches, individual_hits_counts) ==
  [i \in DOMAIN required_matches |->
     IF i = first_with_term(required_matches, required_matches[i].term)
     THEN [required_matches[i] EXCEPT
             !.total_individual_count = @ + individual_hits_counts[required_matches[i].term]]
     ELSE required_matches[i]]

preview(identifier, text) == [kind |-> "preview", id |-> identifier, text |-> text]

truncation_notice == [kind |-> "notice", id |-> <<>>, text |-> <<>>]

\* "Error: Please provide at least one search term."
configuration_error == [kind |-> "error", id |-> <<>>, text |-> <<>>]

\* printing that repeats the notice for every full match past the limit
print_full_match_RepeatsNotice(out, found_count, MAX_PRINT_LINES, identifier, text) ==
  IF found_count <= MAX_PRINT_LINES THEN Append(out, preview(identifier, text))
  ELSE Append(out, truncation_notice)

\* what one full match adds to stdout once found_count has been incremented
print_full_match(out, found_count, MAX_PRINT_LINES, identifier, text) ==
  IF found_count <= MAX_PRINT_LINES THEN Append(out, preview(identifier, text))
  ELSE IF found_count = MAX_PRINT_LINES + 1 THEN Append(out, truncation_notice)
  ELSE out

\* "for header_id, highlighted_output in found_matches_in_batch"
RECURSIVE print_batch(_, _, _, _, _)
print_batch(found_matches, j, found_count, out, MAX_PRINT_LINES) ==
  IF j > Len(found_matches) THEN [found_count |-> found_count, out |-> out]
  ELSE print_batch(
         found_matches, j + 1, found_count + 1,
         print_full_match(out, found_count + 1, MAX_PRINT_LINES,
                          found_matches[j].header_id, found_matches[j].text),
         MAX_PRINT_LINES)

\* ------------------------------------------------------------ final summary
min(a, b) == IF a < b THEN a ELSE b

\* the figures grep_and_highlight prints; the percentage is in hundredths
\* of a percent, rounded as "{:.2f}" rounds
summary_EmptyIsFullMatch(total_reads, found_count, required_matches, max_lines) ==
  [total_reads |-> total_reads,
   found_count |-> found_count,
   percentage_match |->
     IF total_reads > 0
     THEN (2 * 10000 * found_count + total_reads) \div (2 * total_reads)
     ELSE 10000,
   lines_printed |-> min(found_count, max_lines),
   term_hits |-> [i \in DOMAIN required_matches |->
                    required_matches[i].total_individual_count]]

summary(total_reads, found_count, required_matches, max_lines) ==
  [total_reads |-> total_reads,
   found_count |-> found_count,
   percentage_match |->
     IF total_reads > 0
     THEN (2 * 10000 * found_count + total_reads) \div (2 * total_reads)
     ELSE 0,
   lines_printed |-> min(found_count, max_lines),
   term_hits |-> [i \in DOMAIN required_matches |->
                    required_matches[i].total_individual_count]]

\* ------------------------------------------------------------------ inputs
\* a FASTQ record: header (with or without the '@' marker), sequence,
\* separator, quality
RecordKinds ==
  { [marked |-> TRUE, seq |-> <<"A","C","T">>],
    [marked |-> TRUE, seq |-> <<"g","t">>],
    [marked |-> FALSE, seq |-> <<"A","C","T">>] }

record_lines(kind, i) ==
  << IF kind.marked THEN <<"@", Digits[i + 1], " ", "x", "\n">>
                    ELSE <<Digits[i + 1], "\n">>,
     kind.seq \o <<"\n">>,
     <<"+", "\n">>,
     <<"I", "I", "I", "\n">> >>

RECURSIVE lines_of(_, _)
lines_of(kinds, i) ==
  IF i > Len(kinds) THEN <<>>
  ELSE record_lines(kinds[i], i) \o lines_of(kinds, i + 1)

\* the lines of an incomplete last record
TrailingRecord == record_lines([marked |-> TRUE, seq |-> <<"A","C","T">>], 9)

\* archives of at most MaxRecords records, the last of which may be cut
\* short after one, two or three lines
Archives ==
  { lines_of(ks, 1) : ks \in UNION {[1..n -> RecordKinds] : n \in 0..MaxRecords} }
  \cup
  { lines_of(ks, 1) \o SubSeq(TrailingRecord, 1, t) :
      ks \in UNION {[1..n -> RecordKinds] : n \in 0..(MaxRecords - 1)}, t \in 1..3 }

\* term arguments with and without --reverse_complement: one term, two
\* different terms, the same text in two slots
TermArguments ==
  { [terms |-> << <<"A","Y">> >>, reverse_complement |-> FALSE],
    [terms |-> << <<"A","Y">> >>, reverse_complement |-> TRUE],
    [terms |-> << <<"T">> >>, reverse_complement |-> FALSE],
    [terms |-> << <<"A","Y">>, <<"T">> >>, reverse_complement |-> FALSE],
    [terms |-> << <<"A","Y">>, <<"T">> >>, reverse_complement |-> TRUE],
    [terms |-> << <<"T">>, <<"T">> >>, reverse_complement |-> FALSE] }

\* no term flag given (grep_and_highlight called with an empty list)
NoTermArguments ==
  { [terms |-> <<>>, reverse_complement |-> FALSE] }

\* --limit values
Limits == {-1, 0, 1}

\* batch sizes (BATCH_SIZE scaled down to the archives above)
BatchSizes == {1, 2}

\* ------------------------------------------------------------------- state
VARIABLES
  archive,                \* the lines of the input file
  max_print_lines,        \* --limit
  batch_size,             \* reads per batch handed to _read_fastq_batches
  pc,                     \* where the two runs over the archive stand
  stderr,                 \* messages written to the error stream
  line_number,            \* sequential run: locals of the read loop
  last_header_id,
  seq_found_count,
  seq_required_matches,   \* sequential run: the term list with its counters
  seq_out,                \* sequential run: previews and notice on stdout
  seq_ret,                \* sequential run: <<total, found>> once returned
  seq_report,             \* sequential run: the final summary once printed
  par_pos,                \* parallel run: lines consumed by the reader
  futures,                \* parallel run: submitted batches and their results
  completed,              \* parallel run: futures in the order as_completed gave them
  reads_processed,
  par_found_count,
  par_required_matches,
  par_out,
  par_ret,
  par_report

runVars ==
  <<archive, max_print_lines, batch_size, pc, stderr, line_number, last_header_id,
    seq_found_count, seq_required_matches, seq_out, seq_ret, seq_report, par_pos,
    futures, completed, reads_processed, par_found_count, par_required_matches,
    par_out, par_ret, par_report>>

seqVars ==
  <<line_number, last_header_id, seq_found_count, seq_required_matches, seq_out,
    seq_ret, seq_report>>

parVars ==
  <<par_pos, futures, completed, reads_processed, par_found_count,
    par_required_matches, par_out, par_ret, par_report>>

inputVars == <<archive, max_print_lines, batch_size>>

VARIABLES cc_pc, cc_in, cc_rc1, cc_rc2, cc_pat

ccVars == <<cc_pc, cc_in, cc_rc1, cc_rc2, cc_pat>>

\* the term-list comparison: one archive searched under two term lists
VARIABLES tl_pc, tl_archive, tl_terms, tl_count, tl_other

tlVars == <<tl_pc, tl_archive, tl_terms, tl_count, tl_other>>

\* search_barcodes (ID_finder.py)
VARIABLES
  lk_pc,                  \* where search_barcodes stands
  ids_file,               \* the lines of the ids file
  fastq_dir,              \* the directory: files in os.listdir order
  target_ids,
  results,
  ids_to_find,
  fastq_files,
  file_index,             \* how many files of fastq_files the loop has taken
  line_count,
  output_data,            \* the rows written to the CSV file
  barcode_summary,        \* the figures of the closing summary
  lk_log                  \* warnings and errors printed

lkVars ==
  <<lk_pc, ids_file, fastq_dir, target_ids, results, ids_to_find, fastq_files,
    file_index, line_count, output_data, barcode_summary, lk_log>>

vars == <<runVars, ccVars, tlVars, lkVars>>

\* what the actions of one specification leave alone
notRun == <<ccVars, tlVars, lkVars>>

notCompiler == <<runVars, tlVars, lkVars>>

notTermLists == <<runVars, ccVars, lkVars>>

notLookup == <<runVars, ccVars, tlVars>>

\* the pattern-compiler variables while a run is modelled
CompilerIdle ==
  /\ cc_pc = "off"
  /\ cc_in = <<>>
  /\ cc_rc1 = <<>>
  /\ cc_rc2 = <<>>
  /\ cc_pat = <<>>

\* the term-list variables while something else is modelled
TermListsIdle ==
  /\ tl_pc = "off"
  /\ tl_archive = <<>>
  /\ tl_terms = <<>>
  /\ tl_count = <<>>
  /\ tl_other = <<>>

\* search_barcodes before its first statement, on the given inputs
LookupStart(ids, dir, at) ==
  /\ lk_pc = at
  /\ ids_file = ids
  /\ fastq_dir = dir
  /\ target_ids = {}
  /\ results = [id_ \in {} |-> <<>>]
  /\ ids_to_find = {}
  /\ fastq_files = <<>>
  /\ file_index = 0
  /\ line_count = 0
  /\ output_data = {}
  /\ barcode_summary = <<>>
  /\ lk_log = <<>>

\* the lookup variables while something else is modelled
LookupIdle == LookupStart(<<>>, <<>>, "off")

RunStart(lines, terms, reverse_complement, limit, size, at) ==
  /\ archive = lines
  /\ max_print_lines = limit
  /\ batch_size = size
  /\ pc = at
  /\ stderr = <<>>
  /\ line_number = 0
  /\ last_header_id = <<>>
  /\ seq_found_count = 0
  /\ seq_required_matches = build_required_matches(terms, reverse_complement)
  /\ seq_out = <<>>
  /\ seq_ret = <<>>
  /\ seq_report = <<>>
  /\ par_pos = 0
  /\ futures = <<>>
  /\ completed = <<>>
  /\ reads_processed = 0
  /\ par_found_count = 0
  /\ par_required_matches = build_required_matches(terms, reverse_complement)
  /\ par_out = <<>>
  /\ par_ret = <<>>
  /\ par_report = <<>>

\* grep_and_highlight is called twice with the same arguments: on the
\* archive as a .gz file (sequential strategy) and, unless that run aborted
\* on a read error, on the archive uncompressed (parallel strategy).
Init ==
  /\ \E lines \in Archives, args \in TermArguments \cup NoTermArguments,
        limit \in Limits, size \in BatchSizes :
       RunStart(lines, args.terms, args.reverse_complement, limit, size, "start")
  /\ CompilerIdle
  /\ TermListsIdle
  /\ LookupIdle

\* ------------------------------------------------------------------ router
\* a router that hands an empty term list to the strategy
SeqStart_NoCheck ==
  /\ pc = "start"
  /\ pc' = "seq_loop"
  /\ UNCHANGED <<inputVars, stderr, seqVars, parVars, notRun>>

\* grep_and_highlight on the .gz file: an empty term list is reported and
\* the call returns, anything else goes to the sequential strategy
SeqStart ==
  /\ pc = "start"
  /\ IF seq_required_matches = <<>>
     THEN /\ seq_out' = Append(seq_out, configuration_error)
          /\ pc' = "par_start"
     ELSE /\ pc' = "seq_loop"
          /\ UNCHANGED seq_out
  /\ UNCHANGED <<inputVars, stderr, line_number, last_header_id, seq_found_count,
                 seq_required_matches, seq_ret, seq_report, parVars, notRun>>

\* grep_and_highlight on the uncompressed file
ParStart ==
  /\ pc = "par_start"
  /\ IF par_required_matches = <<>>
     THEN /\ par_out' = Append(par_out, configuration_error)
          /\ pc' = "done"
     ELSE /\ pc' = "par_submit"
          /\ UNCHANGED par_out
  /\ UNCHANGED <<inputVars, stderr, seqVars, par_pos, futures, completed,
                 reads_processed, par_found_count, par_required_matches, par_ret,
                 par_report, notRun>>

\* ------------------------------------------------------ sequential strategy
\* one iteration of "for line in f"
SeqLine ==
  /\ pc = "seq_loop"
  /\ line_number < Len(archive)
  /\ LET n == line_number + 1
         line == archive[n]
         line_stripped == strip(line)
         header_id == IF n % 4 = 1 /\ startswith_at(line)
                      THEN first_token(line_stripped)
                      ELSE last_header_id
         scan == seq_scan_terms(seq_required_matches, 1, line_stripped, TRUE)
         found == seq_found_count + 1
         identifier == IF header_id # <<>> THEN header_id
                       ELSE <<"L","i","n","e"," ">> \o decimal(n)
     IN /\ line_number' = n
        /\ last_header_id' = header_id
        /\ IF n % 4 = 2
           THEN /\ seq_required_matches' = scan.matches
                /\ IF scan.all_logical_terms_present
                   THEN /\ seq_found_count' = found
                        /\ seq_out' =
                             print_full_match(
                               seq_out, found, max_print_lines, identifier,
                               highlight_matches(line_stripped, seq_required_matches))
                   ELSE UNCHANGED <<seq_found_count, seq_out>>
           ELSE UNCHANGED <<seq_required_matches, seq_found_count, seq_out>>
  /\ UNCHANGED <<inputVars, pc, stderr, seq_ret, seq_report, parVars, notRun>>

\* the loop ends: final update and return (the locals go out of scope)
SeqReturn ==
  /\ pc = "seq_loop"
  /\ line_number = Len(archive)
  /\ seq_ret' = <<line_number \div 4, seq_found_count>>
  /\ pc' = "seq_summary"
  /\ line_number' = 0
  /\ last_header_id' = <<>>
  /\ seq_found_count' = 0
  /\ UNCHANGED <<inputVars, stderr, seq_required_matches, seq_out, seq_report,
                 parVars, notRun>>

\* reading the next line raises (I/O failure, corrupt gzip member):
\* "except Exception" logs it and returns 0, 0
SeqReadError ==
  /\ pc = "seq_loop"
  /\ line_number < Len(archive)
  /\ stderr' = Append(stderr, "sequential: read error")
  /\ seq_ret' = <<0, 0>>
  /\ pc' = "seq_summary"
  /\ line_number' = 0
  /\ last_header_id' = <<>>
  /\ seq_found_count' = 0
  /\ UNCHANGED <<inputVars, seq_required_matches, seq_out, seq_report, parVars,
                 notRun>>

\* grep_and_highlight prints the summary of the sequential run
SeqSummary ==
  /\ pc = "seq_summary"
  /\ seq_report' =
       <<summary(seq_ret[1], seq_ret[2], seq_required_matches, max_print_lines)>>
  /\ pc' = IF stderr = <<>> THEN "par_start" ELSE "done"
  /\ UNCHANGED <<inputVars, stderr, line_number, last_header_id, seq_found_count,
                 seq_required_matches, seq_out, seq_ret, parVars, notRun>>

\* -------------------------------------------------------- parallel strategy
next_batch == read_fastq_batch(archive, par_pos, batch_size, 0, <<>>)

\* the reader yields a batch and the driver submits it
ParSubmit ==
  /\ pc = "par_submit"
  /\ next_batch.status = "yield"
  /\ par_pos' = next_batch.pos
  /\ reads_processed' = reads_processed + Len(next_batch.batch)
  /\ futures' = Append(futures,
                       [batch |-> next_batch.batch, state |-> "pending", result |-> <<>>])
  /\ UNCHANGED <<inputVars, pc, stderr, seqVars, completed, par_found_count,
                 par_required_matches, par_out, par_ret, par_report, notRun>>

\* the reader is exhausted: the driver turns to as_completed(futures)
ParReaderStop ==
  /\ pc = "par_submit"
  /\ next_batch.status = "stop"
  /\ pc' = "par_collect"
  /\ UNCHANGED <<inputVars, stderr, seqVars, parVars, notRun>>

\* lines[1] on a one-line remainder raises IndexError inside the reader;
\* the outer "except Exception" logs it and returns 0, 0 (the pool is shut
\* down and the locals go out of scope)
ParReaderRaise ==
  /\ pc = "par_submit"
  /\ next_batch.status = "raise"
  /\ stderr' = Append(stderr, "parallel processing: list index out of range")
  /\ par_ret' = <<0, 0>>
  /\ pc' = "par_summary"
  /\ par_pos' = 0
  /\ futures' = <<>>
  /\ reads_processed' = 0
  /\ UNCHANGED <<inputVars, seqVars, completed, par_found_count,
                 par_required_matches, par_out, par_report, notRun>>

\* reading the file raises while batches are being submitted
ParReadError ==
  /\ pc = "par_submit"
  /\ par_pos < Len(archive)
  /\ stderr' = Append(stderr, "parallel processing: read error")
  /\ par_ret' = <<0, 0>>
  /\ pc' = "par_summary"
  /\ par_pos' = 0
  /\ futures' = <<>>
  /\ reads_processed' = 0
  /\ UNCHANGED <<inputVars, seqVars, completed, par_found_count,
                 par_required_matches, par_out, par_report, notRun>>

\* a worker that adds its counts to the driver's term list itself
WorkerRun_SharesCounters(b) ==
  /\ pc \in {"par_submit", "par_collect"}
  /\ b \in DOMAIN futures
  /\ futures[b].state = "pending"
  /\ LET res == search_read_batch(futures[b].batch, lite_of(par_required_matches))
     IN /\ futures' = [futures EXCEPT ![b].state = "done", ![b].result = <<res>>]
        /\ par_required_matches' =
             merge_counts(par_required_matches, res.individual_hits_counts)
  /\ UNCHANGED <<inputVars, pc, stderr, seqVars, par_pos, completed, reads_processed,
                 par_found_count, par_out, par_ret, par_report, notRun>>

\* a worker process runs _search_read_batch on a submitted batch
WorkerRun(b) ==
  /\ pc \in {"par_submit", "par_collect"}
  /\ b \in DOMAIN futures
  /\ futures[b].state = "pending"
  /\ futures' =
       [futures EXCEPT
          ![b].state = "done",
          ![b].result =
             <<search_read_batch(futures[b].batch, lite_of(par_required_matches))>>]
  /\ UNCHANGED <<inputVars, pc, stderr, seqVars, par_pos, completed, reads_processed,
                 par_found_count, par_required_matches, par_out, par_ret, par_report,
                 notRun>>

\* a worker process dies or raises: the future holds an exception
WorkerFail(b) ==
  /\ pc \in {"par_submit", "par_collect"}
  /\ b \in DOMAIN futures
  /\ futures[b].state = "pending"
  /\ futures' = [futures EXCEPT ![b].state = "failed"]
  /\ UNCHANGED <<inputVars, pc, stderr, seqVars, par_pos, completed, reads_processed,
                 par_found_count, par_required_matches, par_out, par_ret, par_report,
                 notRun>>

collected(b) == \E k \in DOMAIN completed : completed[k] = b

\* a collection loop whose error handler sits outside the loop: the first
\* failed future ends the run with 0, 0
Collect_AbortsOnFailure(b) ==
  /\ pc = "par_collect"
  /\ b \in DOMAIN futures
  /\ futures[b].state \in {"done", "failed"}
  /\ ~collected(b)
  /\ IF futures[b].state = "done"
     THEN LET res == futures[b].result[1]
              printed == print_batch(res.found_matches, 1, par_found_count, par_out,
                                     max_print_lines)
          IN /\ completed' = Append(completed, b)
             /\ par_required_matches' =
                  merge_counts(par_required_matches, res.individual_hits_counts)
             /\ par_found_count' = printed.found_count
             /\ par_out' = printed.out
             /\ UNCHANGED <<stderr, pc, par_ret>>
     ELSE /\ stderr' = Append(stderr, "Error in worker process")
          /\ par_ret' = <<0, 0>>
          /\ pc' = "par_summary"
          /\ UNCHANGED <<completed, par_required_matches, par_found_count, par_out>>
  /\ UNCHANGED <<inputVars, seqVars, par_pos, futures, reads_processed, par_report,
                 notRun>>

\* one iteration of "for future in as_completed(futures)"
Collect(b) ==
  /\ pc = "par_collect"
  /\ b \in DOMAIN futures
  /\ futures[b].state \in {"done", "failed"}
  /\ ~collected(b)
  /\ completed' = Append(completed, b)
  /\ IF futures[b].state = "done"
     THEN LET res == futures[b].result[1]
              printed == print_batch(res.found_matches, 1, par_found_count, par_out,
                                     max_print_lines)
          IN /\ par_required_matches' =
                  merge_counts(par_required_matches, res.individual_hits_counts)
             /\ par_found_count' = printed.found_count
             /\ par_out' = printed.out
             /\ UNCHANGED stderr
     ELSE /\ stderr' = Append(stderr, "Error in worker process")
          /\ UNCHANGED <<par_required_matches, par_found_count, par_out>>
  /\ UNCHANGED <<inputVars, pc, seqVars, par_pos, futures, reads_processed, par_ret,
                 par_report, notRun>>

\* every future has been consumed: final status line and return
ParReturn ==
  /\ pc = "par_collect"
  /\ \A b \in DOMAIN futures : collected(b)
  /\ par_ret' = <<reads_processed, par_found_count>>
  /\ pc' = "par_summary"
  /\ UNCHANGED <<inputVars, stderr, seqVars, par_pos, futures, completed,
                 reads_processed, par_found_count, par_required_matches, par_out,
                 par_report, notRun>>

\* grep_and_highlight prints the summary of the parallel run
ParSummary ==
  /\ pc = "par_summary"
  /\ par_report' =
       <<summary(par_ret[1], par_ret[2], par_required_matches, max_print_lines)>>
  /\ pc' = "done"
  /\ UNCHANGED <<inputVars, stderr, seqVars, par_pos, futures, completed,
                 reads_processed, par_found_count, par_required_matches, par_out,
                 par_ret, notRun>>

Next ==
  \/ SeqStart
  \/ ParStart
  \/ SeqLine
  \/ SeqReturn
  \/ SeqReadError
  \/ SeqSummary
  \/ ParSubmit
  \/ ParReaderStop
  \/ ParReaderRaise
  \/ ParReadError
  \/ \E b \in DOMAIN futures : WorkerRun(b)
  \/ \E b \in DOMAIN futures : WorkerFail(b)
  \/ \E b \in DOMAIN futures : Collect(b)
  \/ ParReturn
  \/ ParSummary

Spec == Init /\ [][Next]_vars

\* ---------------------------------------------------------- pattern compiler
\* The pure functions of the pattern compiler applied to one raw term.
IupacLetters ==
  {UpperLetters[i] : i \in 1..15} \cup {LowerLetters[i] : i \in 1..15}

RawTerms == UNION {[1..n -> IupacLetters] : n \in 1..MaxSeqLen}

InitCompiler ==
  /\ cc_pc = "start"
  /\ cc_in \in RawTerms
  /\ cc_rc1 = <<>>
  /\ cc_rc2 = <<>>
  /\ cc_pat = <<>>
  /\ RunStart(<<>>, <<>>, FALSE, 0, 1, "off")
  /\ TermListsIdle
  /\ LookupIdle

\* term_rc = reverse_complement_sequence(term_fwd)
ReverseComplement ==
  /\ cc_pc = "start"
  /\ cc_rc1' = reverse_complement_sequence(cc_in)
  /\ cc_pc' = "rc"
  /\ UNCHANGED <<cc_in, cc_rc2, cc_pat, notCompiler>>

\* the reverse complement of the reverse complement
ReverseComplementAgain ==
  /\ cc_pc = "rc"
  /\ cc_rc2' = reverse_complement_sequence(cc_rc1)
  /\ cc_pc' = "rc_rc"
  /\ UNCHANGED <<cc_in, cc_rc1, cc_pat, notCompiler>>

\* re.compile(convert_to_regex(term_fwd), re.IGNORECASE)
CompilePattern ==
  /\ cc_pc = "start"
  /\ cc_pat' = re_compile(convert_to_regex(cc_in))
  /\ cc_pc' = "compiled"
  /\ UNCHANGED <<cc_in, cc_rc1, cc_rc2, notCompiler>>

NextCompiler ==
  \/ ReverseComplement
  \/ ReverseComplementAgain
  \/ CompilePattern

SpecCompiler == InitCompiler /\ [][NextCompiler]_vars

\* ------------------------------------------------- term-list comparison
\* One archive of complete records searched under a term list and under
\* the same list with one term removed or one term added.
CompleteArchives ==
  { lines_of(ks, 1) : ks \in UNION {[1..n -> RecordKinds] : n \in 0..MaxRecords} }

\* terms given in one more slot
AddedTerms == { <<"X">>, <<"G">>, <<"T","T">> }

\* found_count as the sequential strategy returns it for the lines from n on
RECURSIVE sequential_found_count(_, _, _, _)
sequential_found_count(lines, n, required_matches, found_count) ==
  IF n > Len(lines) THEN found_count
  ELSE IF n % 4 = 2
  THEN LET scan == seq_scan_terms(required_matches, 1, strip(lines[n]), TRUE)
       IN sequential_found_count(
            lines, n + 1, scan.matches,
            IF scan.all_logical_terms_present THEN found_count + 1 ELSE found_count)
  ELSE sequential_found_count(lines, n + 1, required_matches, found_count)

\* found_count as the parallel strategy returns it when every worker succeeds
RECURSIVE parallel_found_count(_, _, _, _)
parallel_found_count(lines, pos, required_matches, found_count) ==
  LET read == read_fastq_batch(lines, pos, 1, 0, <<>>)
  IN IF read.status # "yield" THEN found_count
     ELSE parallel_found_count(
            lines, read.pos, required_matches,
            found_count
              + Len(search_read_batch(read.batch, lite_of(required_matches)).found_matches))

found_counts(lines, required_matches) ==
  [sequential |-> sequential_found_count(lines, 1, required_matches, 0),
   parallel |-> parallel_found_count(lines, 0, required_matches, 0)]

\* required_matches without its i-th entry (that flag not given)
without_term(required_matches, i) ==
  [j \in 1..(Len(required_matches) - 1) |->
     IF j < i THEN required_matches[j] ELSE required_matches[j + 1]]

InitTermLists ==
  /\ tl_pc = "start"
  /\ tl_archive \in CompleteArchives
  /\ tl_terms \in TermArguments
  /\ tl_count = <<>>
  /\ tl_other = <<>>
  /\ RunStart(<<>>, <<>>, FALSE, 0, 1, "off")
  /\ CompilerIdle
  /\ LookupIdle

\* the archive is searched under the term list
CountFullMatches ==
  /\ tl_pc = "start"
  /\ tl_count' =
       <<found_counts(tl_archive,
                      build_required_matches(tl_terms.terms, tl_terms.reverse_complement))>>
  /\ tl_pc' = "counted"
  /\ UNCHANGED <<tl_archive, tl_terms, tl_other, notTermLists>>

\* the archive is searched again with the i-th term left out
CountWithoutTerm(i) ==
  /\ tl_pc = "counted"
  /\ Len(tl_terms.terms) >= 2
  /\ i \in 1..Len(tl_terms.terms)
  /\ LET required_matches ==
           without_term(
             build_required_matches(tl_terms.terms, tl_terms.reverse_complement), i)
     IN tl_other' = <<[change |-> "removed",
                       required_matches |-> required_matches,
                       count |-> found_counts(tl_archive, required_matches)]>>
  /\ tl_pc' = "compared"
  /\ UNCHANGED <<tl_archive, tl_terms, tl_count, notTermLists>>

\* the archive is searched again with one more term
CountWithTerm(term) ==
  /\ tl_pc = "counted"
  /\ LET required_matches ==
           build_required_matches(Append(tl_terms.terms, term),
                                  tl_terms.reverse_complement)
     IN tl_other' = <<[change |-> "added",
                       required_matches |-> required_matches,
                       count |-> found_counts(tl_archive, required_matches)]>>
  /\ tl_pc' = "compared"
  /\ UNCHANGED <<tl_archive, tl_terms, tl_count, notTermLists>>

NextTermLists ==
  \/ CountFullMatches
  \/ \E i \in 1..2 : CountWithoutTerm(i)
  \/ \E term \in AddedTerms : CountWithTerm(term)

SpecTermLists == InitTermLists /\ [][NextTermLists]_vars

\* ============================================================ ID_finder.py
\* search_barcodes: the identifier lookup over a directory of archives.

\* id_regex = re.compile(r'^@([^ \t]+)'): group 1 of the match at the start
\* of the line, if there is one
RECURSIVE until_blank(_)
until_blank(s) ==
  IF s = <<>> \/ Head(s) \in {" ", "\t"} THEN <<>>
  ELSE <<Head(s)>> \o until_blank(Tail(s))

id_regex_search(line) ==
  IF startswith_at(line) /\ until_blank(Tail(line)) # <<>>
  THEN [matched |-> TRUE, group |-> until_blank(Tail(line))]
  ELSE [matched |-> FALSE, group |-> <<>>]

\* a suffix regex that knows the first mate only
read_suffix_sub_FirstMateOnly(s) ==
  IF Len(s) >= 2 /\ s[Len(s) - 1] = "/" /\ s[Len(s)] = "1"
  THEN SubSeq(s, 1, Len(s) - 2)
  ELSE s

\* read_suffix_regex.sub('', s) with r'/[12]$': "$" is the end of the
\* text or the place before a final newline
read_suffix_sub(s) ==
  IF Len(s) >= 2 /\ s[Len(s) - 1] = "/" /\ s[Len(s)] \in {"1", "2"}
  THEN SubSeq(s, 1, Len(s) - 2)
  ELSE IF Len(s) >= 3 /\ s[Len(s)] = "\n" /\ s[Len(s) - 2] = "/"
          /\ s[Len(s) - 1] \in {"1", "2"}
  THEN SubSeq(s, 1, Len(s) - 3) \o <<"\n">>
  ELSE s

\* barcode_regex = re.compile(r'barcode=([^,\s]+)'): group 1 of the
\* leftmost match
BarcodeKey == <<"b","a","r","c","o","d","e","=">>

RECURSIVE until_comma_or_space(_)
until_comma_or_space(s) ==
  IF s = <<>> \/ Head(s) \in (Whitespace \cup {","}) THEN <<>>
  ELSE <<Head(s)>> \o until_comma_or_space(Tail(s))

RECURSIVE barcode_regex_search(_)
barcode_regex_search(line) ==
  IF Len(line) <= Len(BarcodeKey) THEN [matched |-> FALSE, group |-> <<>>]
  ELSE IF /\ SubSeq(line, 1, Len(BarcodeKey)) = BarcodeKey
          /\ until_comma_or_space(SubSeq(line, Len(BarcodeKey) + 1, Len(line))) # <<>>
  THEN [matched |-> TRUE,
        group |-> until_comma_or_space(SubSeq(line, Len(BarcodeKey) + 1, Len(line)))]
  ELSE barcode_regex_search(Tail(line))

NA == <<"N", "A">>

\* the target identifier a line of the ids file stands for
normalize_target(line) ==
  LET read_id == strip(line)
  IN read_suffix_sub(IF startswith_at(read_id) THEN Tail(read_id) ELSE read_id)

\* "for line in f" over the ids file: blank lines are left out
load_target_ids(lines) ==
  {normalize_target(lines[k]) : k \in {j \in DOMAIN lines : strip(lines[j]) # <<>>}}

\* f.endswith('.fastq.gz') or f.endswith('.fq.gz')
is_fastq_name(name) == name \in {"r1.fastq.gz", "r2.fq.gz"}

\* ------------------------------------------------------- lookup inputs
\* header lines: identifier a with mate suffix and tag X, identifier a
\* without a tag, identifier b with mate suffix and tag Y after a tab, and
\* a line without the '@' marker
LookupHeaders ==
  { <<"@","a","/","1"," ","b","a","r","c","o","d","e","=","X","\n">>,
    <<"@","a","\n">>,
    <<"@","b","/","2","\t","b","a","r","c","o","d","e","=","Y",",","z","\n">>,
    <<"a"," ","b","a","r","c","o","d","e","=","Z","\n">> }

\* the four lines of a record; the quality line begins with '@'
lookup_record(header) ==
  <<header, <<"A","C","G","T","\n">>, <<"+","\n">>, <<"@","a","\n">>>>

RECURSIVE lookup_lines(_)
lookup_lines(headers) ==
  IF headers = <<>> THEN <<>>
  ELSE lookup_record(Head(headers)) \o lookup_lines(Tail(headers))

\* archives of up to two records and of up to one record
LookupArchives == {lookup_lines(hs) : hs \in UNION {[1..n -> LookupHeaders] : n \in 0..2}}

ShortLookupArchives ==
  {lookup_lines(hs) : hs \in UNION {[1..n -> LookupHeaders] : n \in 0..1}}

\* directories: empty, one archive, two archives, a file that is no
\* archive next to an archive
Directories ==
  { <<>> }
  \cup { <<[name |-> "r1.fastq.gz", lines |-> c]>> : c \in LookupArchives }
  \cup { <<[name |-> "r1.fastq.gz", lines |-> c], [name |-> "r2.fq.gz", lines |-> d]>> :
           c \in LookupArchives, d \in ShortLookupArchives }
  \cup { <<[name |-> "notes.txt", lines |-> c], [name |-> "r2.fq.gz", lines |-> d]>> :
           c \in ShortLookupArchives, d \in ShortLookupArchives }

\* lines of the ids file: a/1, @a followed by a blank, b, c, an empty line
IdLines ==
  { <<"a","/","1","\n">>, <<"@","a"," ","\n">>, <<"b","\n">>, <<"c","\n">>, <<"\n">> }

IdsFiles == UNION {[1..n -> IdLines] : n \in 0..2}

InitLookup ==
  /\ \E ids \in IdsFiles, dir \in Directories : LookupStart(ids, dir, "load")
  /\ RunStart(<<>>, <<>>, FALSE, 0, 1, "off")
  /\ CompilerIdle
  /\ TermListsIdle

\* -------------------------------------------------------- search_barcodes
\* step 1: the target set is read and normalised; without targets the
\* function returns
LoadTargets ==
  /\ lk_pc = "load"
  /\ LET ids == load_target_ids(ids_file)
     IN IF ids = {}
        THEN /\ lk_log' = Append(lk_log, "no ids")
             /\ lk_pc' = "done"
             /\ target_ids' = ids
             /\ UNCHANGED <<results, ids_to_find>>
        ELSE /\ target_ids' = ids
             /\ results' = [id_ \in ids |-> NA]
             /\ ids_to_find' = ids
             /\ lk_pc' = "list"
             /\ UNCHANGED lk_log
  /\ UNCHANGED <<ids_file, fastq_dir, fastq_files, file_index, line_count,
                 output_data, barcode_summary, notLookup>>

\* open(ids_file_path) raises FileNotFoundError: sys.exit(1)
IdsFileNotFound ==
  /\ lk_pc = "load"
  /\ lk_log' = Append(lk_log, "ids file not found")
  /\ lk_pc' = "done"
  /\ UNCHANGED <<ids_file, fastq_dir, target_ids, results, ids_to_find, fastq_files,
                 file_index, line_count, output_data, barcode_summary, notLookup>>

\* os.listdir, filtered for the archive suffixes
ListDirectory ==
  /\ lk_pc = "list"
  /\ fastq_files' = SelectSeq(fastq_dir, LAMBDA f : is_fastq_name(f.name))
  /\ lk_log' = IF SelectSeq(fastq_dir, LAMBDA f : is_fastq_name(f.name)) = <<>>
               THEN Append(lk_log, "no fastq files")
               ELSE lk_log
  /\ lk_pc' = "files"
  /\ UNCHANGED <<ids_file, fastq_dir, target_ids, results, ids_to_find, file_index,
                 line_count, output_data, barcode_summary, notLookup>>

\* os.listdir raises FileNotFoundError: sys.exit(1)
DirectoryNotFound ==
  /\ lk_pc = "list"
  /\ lk_log' = Append(lk_log, "directory not found")
  /\ lk_pc' = "done"
  /\ UNCHANGED <<ids_file, fastq_dir, target_ids, results, ids_to_find, fastq_files,
                 file_index, line_count, output_data, barcode_summary, notLookup>>

\* "for filename in fastq_files": the loop ends, or breaks because nothing
\* is left to find, or opens the next file
NextFile ==
  /\ lk_pc = "files"
  /\ IF file_index = Len(fastq_files)
     THEN /\ lk_pc' = "write"
          /\ UNCHANGED <<file_index, line_count, lk_log>>
     ELSE IF ids_to_find = {}
     THEN /\ lk_log' = Append(lk_log, "early stop")
          /\ lk_pc' = "write"
          /\ UNCHANGED <<file_index, line_count>>
     ELSE /\ file_index' = file_index + 1
          /\ line_count' = 0
          /\ lk_pc' = "lines"
          /\ UNCHANGED lk_log
  /\ UNCHANGED <<ids_file, fastq_dir, target_ids, results, ids_to_find, fastq_files,
                 output_data, barcode_summary, notLookup>>

\* an iteration that looks the identifier up in target_ids, so that every
\* matching record writes its value
ReadLine_ChecksTargets ==
  /\ lk_pc = "lines"
  /\ line_count < Len(fastq_files[file_index].lines)
  /\ LET n == line_count + 1
         line == fastq_files[file_index].lines[n]
         id_match == id_regex_search(line)
         read_id == read_suffix_sub(strip(id_match.group))
         barcode_match == barcode_regex_search(line)
         barcode_value == IF barcode_match.matched THEN strip(barcode_match.group)
                          ELSE NA
     IN /\ line_count' = n
        /\ IF /\ n % 4 = 1
              /\ startswith_at(line)
              /\ id_match.matched
              /\ read_id \in target_ids
           THEN /\ results' = [results EXCEPT ![read_id] = barcode_value]
                /\ ids_to_find' = ids_to_find \ {read_id}
           ELSE UNCHANGED <<results, ids_to_find>>
  /\ UNCHANGED <<lk_pc, ids_file, fastq_dir, target_ids, fastq_files, file_index,
                 output_data, barcode_summary, lk_log, notLookup>>

\* one iteration of "for line_count, line in enumerate(fastq_file, 1)"
ReadLine ==
  /\ lk_pc = "lines"
  /\ line_count < Len(fastq_files[file_index].lines)
  /\ LET n == line_count + 1
         line == fastq_files[file_index].lines[n]
         id_match == id_regex_search(line)
         extracted_id == strip(id_match.group)
         read_id == read_suffix_sub(extracted_id)
         barcode_match == barcode_regex_search(line)
         barcode_value == IF barcode_match.matched THEN strip(barcode_match.group)
                          ELSE NA
     IN /\ line_count' = n
        /\ IF /\ n % 4 = 1
              /\ startswith_at(line)
              /\ id_match.matched
              /\ read_id \in ids_to_find
           THEN /\ results' = [results EXCEPT ![read_id] = barcode_value]
                /\ ids_to_find' = ids_to_find \ {read_id}
           ELSE UNCHANGED <<results, ids_to_find>>
  /\ UNCHANGED <<lk_pc, ids_file, fastq_dir, target_ids, fastq_files, file_index,
                 output_data, barcode_summary, lk_log, notLookup>>

\* the file is exhausted: on to the next one
FileEnd ==
  /\ lk_pc = "lines"
  /\ line_count = Len(fastq_files[file_index].lines)
  /\ lk_pc' = "files"
  /\ UNCHANGED <<ids_file, fastq_dir, target_ids, results, ids_to_find, fastq_files,
                 file_index, line_count, output_data, barcode_summary, lk_log,
                 notLookup>>

\* opening or reading the file raises: "except Exception" reports it and
\* continues with the next file
FileReadError ==
  /\ lk_pc = "lines"
  /\ lk_log' = Append(lk_log, "read error")
  /\ lk_pc' = "files"
  /\ UNCHANGED <<ids_file, fastq_dir, target_ids, results, ids_to_find, fastq_files,
                 file_index, line_count, output_data, barcode_summary, notLookup>>

\* steps 3 and 4: one row per target, then the tally of the values
WriteCsv ==
  /\ lk_pc = "write"
  /\ output_data' = {<<<<"@">> \o id_, results[id_]>> : id_ \in target_ids}
  /\ LET total_target_ids == Cardinality(target_ids)
         values == {results[id_] : id_ \in target_ids}
         barcode_counts ==
           [v \in values |-> Cardinality({id_ \in target_ids : results[id_] = v})]
         found_count == total_target_ids
                        - (IF NA \in values THEN barcode_counts[NA] ELSE 0)
     IN barcode_summary' = <<[total_target_ids |-> total_target_ids,
                              found_count |-> found_count,
                              barcode_counts |-> barcode_counts]>>
  /\ lk_log' = Append(lk_log, "saved")
  /\ lk_pc' = "done"
  /\ UNCHANGED <<ids_file, fastq_dir, target_ids, results, ids_to_find, fastq_files,
                 file_index, line_count, notLookup>>

\* writing the CSV file raises: sys.exit(1)
CsvWriteError ==
  /\ lk_pc = "write"
  /\ lk_log' = Append(lk_log, "csv error")
  /\ lk_pc' = "done"
  /\ UNCHANGED <<ids_file, fastq_dir, target_ids, results, ids_to_find, fastq_files,
                 file_index, line_count, output_data, barcode_summary, notLookup>>

NextLookup ==
  \/ LoadTargets
  \/ IdsFileNotFound
  \/ ListDirectory
  \/ DirectoryNotFound
  \/ NextFile
  \/ ReadLine
  \/ FileEnd
  \/ FileReadError
  \/ WriteCsv
  \/ CsvWriteError

SpecLookup == InitLookup /\ [][NextLookup]_vars

\* ===================================================================== claims
\* Reference notions the claims are stated with.

\* a term hits a text when one of its matchers occurs in it
term_hits(match_data, text) ==
  \E k \in DOMAIN match_data.compiled_patterns :
    re_search(match_data.compiled_patterns[k], text)

all_terms_hit(required_matches, text) ==
  \A i \in DOMAIN required_matches : term_hits(required_matches[i], text)

\* the sequence lines among the first n lines of the archive
SequenceLines(n) == {k \in 1..n : k % 4 = 2}

\* number of complete four-line records of the archive
CompleteRecords == Len(archive) \div 4

RECURSIVE SumOver(_, _)
SumOver(S, f) ==
  IF S = {} THEN 0
  ELSE LET x == CHOOSE x \in S : TRUE IN f[x] + SumOver(S \ {x}, f)

\* reads of a batch that a term hits / that every term hits
BatchHits(batch, match_data) ==
  Cardinality({r \in DOMAIN batch : term_hits(match_data, strip(batch[r].sequence))})

BatchFullMatches(batch, required_matches) ==
  SelectSeq(batch, LAMBDA rd : all_terms_hit(required_matches, strip(rd.sequence)))

\* futures whose result the driver has merged so far
Merged == {b \in DOMAIN futures : collected(b) /\ futures[b].state = "done"}

\* faults of the environment, as opposed to errors the program raises itself
SeqReadFailed == \E k \in DOMAIN stderr : stderr[k] = "sequential: read error"

ParReadFailed == \E k \in DOMAIN stderr : stderr[k] = "parallel processing: read error"

ReaderRaised ==
  \E k \in DOMAIN stderr : stderr[k] = "parallel processing: list index out of range"

WorkerFailed == \E b \in DOMAIN futures : futures[b].state = "failed"

\* the parallel driver is in, or has left, its collection loop
ParCollecting ==
  \/ pc = "par_collect"
  \/ pc \in {"par_summary", "done"} /\ par_ret # <<>> /\ ~ParReadFailed /\ ~ReaderRaised

\* a text without the colour codes highlight_matches inserted
RECURSIVE Uncoloured(_)
Uncoloured(text) ==
  IF text = <<>> THEN <<>>
  ELSE IF Head(text) = "ESC"
  THEN LET m == CHOOSE k \in 1..Len(text) : text[k] = "m"
       IN Uncoloured(SubSeq(text, m + 1, Len(text)))
  ELSE <<Head(text)>> \o Uncoloured(Tail(text))

\* C1: in both strategies a processed record is counted as a full match
\* exactly when every term has some matcher (forward or reverse complement)
\* occurring in its sequence: the sequential count is the number of such
\* sequence lines read so far, a worker returns exactly the reads of its
\* batch with that property, and the driver's count is the number of such
\* reads in the batches it has merged.
C1_FullMatchIffEveryTermHits ==
  /\ pc = "seq_loop" =>
       seq_found_count =
         Cardinality({n \in SequenceLines(line_number) :
                        all_terms_hit(seq_required_matches, strip(archive[n]))})
  /\ \A b \in DOMAIN futures :
       futures[b].state = "done" =>
         LET full == BatchFullMatches(futures[b].batch, par_required_matches)
             found == futures[b].result[1].found_matches
         IN /\ Len(found) = Len(full)
            /\ \A k \in DOMAIN found :
                 /\ found[k].header_id = full[k].header_id
                 /\ Uncoloured(found[k].text) = strip(full[k].sequence)
  /\ ParCollecting =>
       par_found_count =
         SumOver(Merged,
                 [b \in Merged |->
                    Len(BatchFullMatches(futures[b].batch, par_required_matches))])

\* C1 witness: both runs finished on an archive with a record that is a
\* full match of two terms and a record that is not
C1_Witness ==
  /\ pc = "done"
  /\ stderr = <<>>
  /\ Len(par_required_matches) = 2
  /\ seq_report # <<>> /\ par_report # <<>>
  /\ seq_report[1].found_count = 1 /\ seq_report[1].total_reads = 2
  /\ par_report[1].found_count = 1 /\ par_report[1].total_reads = 2

\* C2: every term's counter grows by exactly one per record the term hits
\* and by nothing otherwise, in both strategies and for every term list
\* (also when two slots carry the same text): the counter of each slot is
\* the number of processed records that slot's term hits.
C2_CounterIsHitRecords ==
  /\ pc = "seq_loop" =>
       \A i \in DOMAIN seq_required_matches :
         seq_required_matches[i].total_individual_count =
           Cardinality({n \in SequenceLines(line_number) :
                          term_hits(seq_required_matches[i], strip(archive[n]))})
  /\ ParCollecting =>
       \A i \in DOMAIN par_required_matches :
         par_required_matches[i].total_individual_count =
           SumOver(Merged,
                   [b \in Merged |-> BatchHits(futures[b].batch, par_required_matches[i])])

\* C3: at the end of every run the reported full matches and every
\* reported term count are at most the reported total of records.
ReportWithinTotal(report) ==
  /\ report.found_count <= report.total_reads
  /\ \A i \in DOMAIN report.term_hits : report.term_hits[i] <= report.total_reads

C3_CountsWithinTotal ==
  /\ seq_report # <<>> => ReportWithinTotal(seq_report[1])
  /\ par_report # <<>> => ReportWithinTotal(par_report[1])

\* C4: when neither run meets a read failure or a worker failure, the
\* sequential and the parallel run over the same lines report the same
\* total, the same full-match count and the same per-term counts.
C4_StrategiesAgree ==
  (pc = "done" /\ seq_report # <<>> /\ par_report # <<>>
     /\ ~SeqReadFailed /\ ~ParReadFailed /\ ~WorkerFailed) =>
    /\ seq_report[1].total_reads = par_report[1].total_reads
    /\ seq_report[1].found_count = par_report[1].found_count
    /\ seq_report[1].term_hits = par_report[1].term_hits

\* C5: in parallel mode the final full-match count and the final per-term
\* counts depend only on the batches and their results, not on the order
\* in which the results arrived: they are the sums over the successful
\* batches (a term text's sum sits in the first slot with that text).
Succeeded == {b \in DOMAIN futures : futures[b].state = "done"}

C5_TotalsIndependentOfArrivalOrder ==
  (pc \in {"par_summary", "done"} /\ par_ret # <<>> /\ ~ParReadFailed /\ ~ReaderRaised) =>
    /\ par_ret[2] =
         SumOver(Succeeded,
                 [b \in Succeeded |-> Len(futures[b].result[1].found_matches)])
    /\ \A i \in DOMAIN par_required_matches :
         par_required_matches[i].total_individual_count =
           IF \E j \in 1..(i - 1) :
                par_required_matches[j].term = par_required_matches[i].term
           THEN 0
           ELSE SumOver(Succeeded,
                        [b \in Succeeded |->
                           futures[b].result[1].individual_hits_counts[
                             par_required_matches[i].term]])

\* C5 witness: two batches with different results were merged in the
\* reverse of their submission order
C5_Witness ==
  /\ pc = "done"
  /\ completed = <<2, 1>>
  /\ Succeeded = {1, 2}
  /\ futures[1].result[1] # futures[2].result[1]
  /\ par_ret # <<>> /\ par_ret[2] >= 1

\* C6: the pattern compiled from one IUPAC code matches a single
\* character exactly when that character's upper case is one of the
\* code's documented bases.
DocumentedBases ==
  ( "A" :> {"A"} @@ "C" :> {"C"} @@ "G" :> {"G"} @@ "T" :> {"T"} @@
    "R" :> {"A","G"} @@ "Y" :> {"C","T"} @@ "S" :> {"G","C"} @@ "W" :> {"A","T"} @@
    "K" :> {"G","T"} @@ "M" :> {"A","C"} @@ "B" :> {"C","G","T"} @@
    "D" :> {"A","G","T"} @@ "H" :> {"A","C","T"} @@ "V" :> {"A","C","G"} @@
    "N" :> {"A","C","G","T"} )

ProbeCharacters == IupacLetters \cup {"X", "x", "|", "[", "]", "\\", " "}

C6_CodeMatchesExactlyItsBases ==
  (cc_pc = "compiled" /\ Len(cc_in) = 1) =>
    \A x \in ProbeCharacters :
      re_search(cc_pat, <<x>>) <=> upper(x) \in DocumentedBases[upper(cc_in[1])]

\* C7 as claimed: the reverse complement of the reverse complement of a
\* sequence of IUPAC codes in upper or lower case is the sequence itself.
C7_InvolutionExact == cc_pc = "rc_rc" => cc_rc2 = cc_in

\* C7 amended: the reverse complement of the reverse complement of a
\* sequence of IUPAC codes is the sequence in upper case; it is the
\* sequence itself exactly when the sequence has no lower-case code.
C7_InvolutionUpToCase ==
  cc_pc = "rc_rc" =>
    /\ cc_rc2 = [i \in 1..Len(cc_in) |-> upper(cc_in[i])]
    /\ (cc_rc2 = cc_in <=> \A i \in 1..Len(cc_in) : cc_in[i] = upper(cc_in[i]))

\* C7 witness: a two-code sequence with a lower-case code whose
\* complement is another code, reverse-complemented twice
C7_Witness ==
  /\ cc_pc = "rc_rc"
  /\ cc_in = <<"h", "G">>
  /\ cc_rc1 = <<"C", "D">>

\* C8: with preview limit L, in either strategy, the previews printed are
\* those of the first L full matches the driver met, in that order; the
\* truncation notice is printed once, after them, when full match L+1 is
\* met, and nothing is printed after it; every full match is counted.
ExpectedPreviews(n, limit) == IF limit < n THEN (IF limit < 0 THEN 0 ELSE limit) ELSE n

OutputShape(out, found, limit) ==
  /\ Len(out) = ExpectedPreviews(found, limit)
                + (IF limit >= 0 /\ found > limit THEN 1 ELSE 0)
  /\ \A k \in DOMAIN out :
       out[k].kind = IF k <= ExpectedPreviews(found, limit) THEN "preview" ELSE "notice"

\* line numbers of the full matches among the first n lines, ascending
RECURSIVE FullMatchLines(_)
FullMatchLines(n) ==
  IF n = 0 THEN <<>>
  ELSE IF n % 4 = 2 /\ all_terms_hit(seq_required_matches, strip(archive[n]))
  THEN Append(FullMatchLines(n - 1), n)
  ELSE FullMatchLines(n - 1)

\* the full matches in the order the parallel driver met them
RECURSIVE Encountered(_)
Encountered(k) ==
  IF k = 0 THEN <<>>
  ELSE Encountered(k - 1) \o
       (IF futures[completed[k]].state = "done"
        THEN futures[completed[k]].result[1].found_matches
        ELSE <<>>)

C8_PreviewsAreFirstMatchesUpToLimit ==
  /\ pc = "seq_loop" =>
       LET met == FullMatchLines(line_number)
       IN /\ seq_found_count = Len(met)
          /\ OutputShape(seq_out, Len(met), max_print_lines)
          /\ \A k \in 1..ExpectedPreviews(Len(met), max_print_lines) :
               Uncoloured(seq_out[k].text) = strip(archive[met[k]])
  /\ ParCollecting =>
       LET met == Encountered(Len(completed))
       IN /\ par_found_count = Len(met)
          /\ OutputShape(par_out, Len(met), max_print_lines)
          /\ \A k \in 1..ExpectedPreviews(Len(met), max_print_lines) :
               /\ par_out[k].id = met[k].header_id
               /\ par_out[k].text = met[k].text

\* C8 witness: both strategies met two full matches under limit 0 and
\* printed the notice alone
C8_Witness ==
  /\ pc = "done"
  /\ max_print_lines = 0
  /\ seq_ret = <<2, 2>>
  /\ par_ret = <<2, 2>>
  /\ seq_out = <<truncation_notice>>
  /\ par_out = <<truncation_notice>>

\* C9: for an archive of N complete records and batch size B the reader
\* yields ceil(N/B) batches, none empty, whose reads put end to end are
\* the N records in archive order.
RECURSIVE ReadsOf(_)
ReadsOf(b) == IF b = 0 THEN <<>> ELSE ReadsOf(b - 1) \o futures[b].batch

ArchiveRecord(i) ==
  [header_id |-> IF Head(archive[4 * i - 3]) = "@"
                 THEN first_token(strip(archive[4 * i - 3]))
                 ELSE <<"U","n","k","n","o","w","n">>,
   sequence |-> archive[4 * i - 2]]

C9_BatchPartition ==
  (pc = "par_collect" /\ Len(archive) % 4 = 0) =>
    /\ Len(futures) = (CompleteRecords + batch_size - 1) \div batch_size
    /\ \A b \in DOMAIN futures : Len(futures[b].batch) >= 1
    /\ SumOver(DOMAIN futures, [b \in DOMAIN futures |-> Len(futures[b].batch)])
         = CompleteRecords
    /\ ReadsOf(Len(futures)) = [i \in 1..CompleteRecords |-> ArchiveRecord(i)]

\* C9 witness: two complete records read with batch size 1 into two batches
C9_Witness ==
  /\ pc = "par_collect"
  /\ Len(archive) = 8
  /\ batch_size = 1
  /\ Len(futures) = 2
  /\ futures[1].batch # futures[2].batch

\* C10: lines left over after the last complete record are discarded
\* without error in both strategies: the program raises nothing, and the
\* reported totals are those of the complete records alone.
ExpectedReport(report, required_matches) ==
  /\ report.total_reads = CompleteRecords
  /\ report.found_count =
       Cardinality({i \in 1..CompleteRecords :
                      all_terms_hit(required_matches, strip(archive[4 * i - 2]))})
  /\ \A t \in DOMAIN required_matches :
       SumOver({s \in DOMAIN required_matches :
                  required_matches[s].term = required_matches[t].term},
               report.term_hits)
         = Cardinality({i \in 1..CompleteRecords :
                          term_hits(required_matches[t], strip(archive[4 * i - 2]))})
           * Cardinality({s \in DOMAIN required_matches :
                            required_matches[s].term = required_matches[t].term})

C10_TrailingLinesDiscarded ==
  Len(archive) % 4 # 0 =>
    /\ ~ReaderRaised
    /\ (seq_report # <<>> /\ ~SeqReadFailed) =>
         ExpectedReport(seq_report[1], seq_required_matches)
    /\ (par_report # <<>> /\ ~ParReadFailed /\ ~WorkerFailed) =>
         ExpectedReport(par_report[1], par_required_matches)

\* C11: a quadruple whose header line does not begin with '@' is skipped
\* in both strategies: its sequence line is not evaluated, so the
\* sequential counters and previews are those of the marked quadruples
\* alone, and no read of an unmarked quadruple is handed to a worker.
MarkedSequenceLines(n) == {k \in SequenceLines(n) : startswith_at(archive[k - 1])}

Unknown == <<"U","n","k","n","o","w","n">>

C11_UnmarkedQuadrupleSkipped ==
  /\ pc = "seq_loop" =>
       /\ seq_found_count =
            Cardinality({n \in MarkedSequenceLines(line_number) :
                           all_terms_hit(seq_required_matches, strip(archive[n]))})
       /\ \A i \in DOMAIN seq_required_matches :
            seq_required_matches[i].total_individual_count =
              Cardinality({n \in MarkedSequenceLines(line_number) :
                             term_hits(seq_required_matches[i], strip(archive[n]))})
  /\ \A b \in DOMAIN futures :
       \A r \in DOMAIN futures[b].batch : futures[b].batch[r].header_id # Unknown

\* C12: when a read error aborts a run, the summary reports the statistics
\* of the records processed before the error: for some number k of records
\* the total is k and the full-match count and every term count are those
\* of the first k records.
PrefixStatistics(report, required_matches, k) ==
  /\ report.total_reads = k
  /\ report.found_count =
       Cardinality({i \in 1..k :
                      all_terms_hit(required_matches, strip(archive[4 * i - 2]))})
  /\ \A t \in DOMAIN required_matches :
       report.term_hits[t] =
         Cardinality({i \in 1..k :
                        term_hits(required_matches[t], strip(archive[4 * i - 2]))})

C12_AbortReportsPartialStatistics ==
  /\ (seq_report # <<>> /\ SeqReadFailed) =>
       \E k \in 0..CompleteRecords :
         PrefixStatistics(seq_report[1], seq_required_matches, k)
  /\ (par_report # <<>> /\ ParReadFailed) =>
       \E k \in 0..CompleteRecords :
         PrefixStatistics(par_report[1], par_required_matches, k)

\* C13: a parallel run in which workers failed still finishes: every
\* future is consumed, the run returns the submitted total, and the
\* full-match count, the term counts (per term text) and the previews are
\* those of all the batches whose worker succeeded and of no other; each
\* failed batch leaves one message on the error stream.
Failed == {b \in DOMAIN futures : futures[b].state = "failed"}

SameText(required_matches, t) ==
  {s \in DOMAIN required_matches : required_matches[s].term = required_matches[t].term}

PreviewsIn(out) == Cardinality({k \in DOMAIN out : out[k].kind = "preview"})

C13_FailedBatchDroppedOthersMerged ==
  (pc \in {"par_summary", "done"} /\ par_ret # <<>> /\ ~ParReadFailed /\ ~ReaderRaised) =>
    LET full == SumOver(Succeeded,
                        [b \in Succeeded |->
                           Len(BatchFullMatches(futures[b].batch, par_required_matches))])
    IN /\ \A b \in DOMAIN futures : collected(b)
       /\ Len(completed) = Len(futures)
       /\ par_ret = <<SumOver(DOMAIN futures,
                              [b \in DOMAIN futures |-> Len(futures[b].batch)]),
                      full>>
       /\ PreviewsIn(par_out) = ExpectedPreviews(full, max_print_lines)
       /\ \A t \in DOMAIN par_required_matches :
            SumOver(SameText(par_required_matches, t),
                    [s \in SameText(par_required_matches, t) |->
                       par_required_matches[s].total_individual_count])
              = SumOver(Succeeded,
                        [b \in Succeeded |->
                           SumOver(SameText(par_required_matches, t),
                                   [s \in SameText(par_required_matches, t) |->
                                      BatchHits(futures[b].batch, par_required_matches[s])])])
       /\ Len(stderr) = Cardinality(Failed)
       /\ \A k \in DOMAIN stderr : stderr[k] = "Error in worker process"

\* C13 witness: of two batches that each hold a full match, one worker
\* failed and the other succeeded; the run finished with one full match,
\* one preview and one message
C13_Witness ==
  /\ pc = "done"
  /\ Len(futures) = 2
  /\ Cardinality(Failed) = 1
  /\ \A b \in DOMAIN futures :
       Len(BatchFullMatches(futures[b].batch, par_required_matches)) = 1
  /\ par_ret = <<2, 1>>
  /\ PreviewsIn(par_out) = 1
  /\ stderr = <<"Error in worker process">>

\* C14: for a fixed archive and either strategy, the full-match count under
\* a term list with one term removed (the rest non-empty) is at least the
\* count under the whole list, and the count under the list with one more
\* term is zero when that term hits no record.
HitsNoRecord(match_data) ==
  \A n \in SequenceLines(Len(tl_archive)) : ~term_hits(match_data, strip(tl_archive[n]))

C14_FullMatchesMonotoneInTerms ==
  tl_pc = "compared" =>
    LET base == tl_count[1]
        other == tl_other[1]
        last == other.required_matches[Len(other.required_matches)]
    IN /\ other.change = "removed" =>
            /\ other.required_matches # <<>>
            /\ other.count.sequential >= base.sequential
            /\ other.count.parallel >= base.parallel
       /\ (other.change = "added" /\ HitsNoRecord(last)) =>
            /\ other.count.sequential = 0
            /\ other.count.parallel = 0

\* C14 witness: removing a term raised the count from 1 to 2
C14_Witness ==
  /\ tl_pc = "compared"
  /\ tl_other[1].change = "removed"
  /\ tl_count[1] = [sequential |-> 1, parallel |-> 1]
  /\ tl_other[1].count = [sequential |-> 2, parallel |-> 2]

\* C14 second case reached: a term that hits no record was added to a list
\* under which the archive had two full matches
C14_WitnessAdded ==
  /\ tl_pc = "compared"
  /\ tl_other[1].change = "added"
  /\ tl_count[1] = [sequential |-> 2, parallel |-> 2]
  /\ tl_other[1].count = [sequential |-> 0, parallel |-> 0]

\* C15: with an empty term list each call of grep_and_highlight reports
\* the configuration failure and returns at once: no line of the archive is
\* read, no batch is submitted, no strategy returns and no summary is
\* printed; the failure message is all the call writes.
C15_NoTermsNoRun ==
  seq_required_matches = <<>> =>
    /\ line_number = 0 /\ par_pos = 0 /\ futures = <<>> /\ reads_processed = 0
    /\ seq_ret = <<>> /\ par_ret = <<>>
    /\ seq_report = <<>> /\ par_report = <<>>
    /\ stderr = <<>>
    /\ pc \in {"start", "par_start", "done"}
    /\ seq_out = IF pc = "start" THEN <<>> ELSE <<configuration_error>>
    /\ par_out = IF pc = "done" THEN <<configuration_error>> ELSE <<>>

\* C15 witness: both calls returned on an archive that holds a record
C15_Witness ==
  /\ pc = "done"
  /\ seq_required_matches = <<>> /\ par_required_matches = <<>>
  /\ Len(archive) >= 4
  /\ seq_out = <<configuration_error>>
  /\ par_out = <<configuration_error>>

\* Reference notions for the identifier lookup.

\* an identifier without a leading '@' and without a trailing /1 or /2
Normalized(s) ==
  LET a == IF s # <<>> /\ Head(s) = "@" THEN Tail(s) ELSE s
  IN IF Len(a) >= 2 /\ SubSeq(a, Len(a) - 1, Len(a)) \in {<<"/","1">>, <<"/","2">>}
     THEN SubSeq(a, 1, Len(a) - 2)
     ELSE a

\* the targets the ids file names
Targets ==
  {Normalized(strip(ids_file[k])) : k \in {j \in DOMAIN ids_file : strip(ids_file[j]) # <<>>}}

\* the header lines of the archives of the directory, in scan order: the
\* lines 1, 5, 9, ... of each archive that begin with '@' and carry an
\* identifier
HeaderLinesOf(lines) ==
  SelectSeq([k \in 1..((Len(lines) + 3) \div 4) |-> lines[4 * k - 3]],
            LAMBDA h : Head(h) = "@" /\ h[2] \notin {" ", "\t"})

RECURSIVE HeadersInScanOrder(_)
HeadersInScanOrder(files) ==
  IF files = <<>> THEN <<>>
  ELSE (IF is_fastq_name(Head(files).name) THEN HeaderLinesOf(Head(files).lines)
        ELSE <<>>) \o HeadersInScanOrder(Tail(files))

\* the identifier of a header line: its first token, normalized
HeaderIdentifier(h) ==
  LET blank == CHOOSE k \in 1..Len(h) :
                 /\ h[k] \in Whitespace
                 /\ \A j \in 1..(k - 1) : h[j] \notin Whitespace
  IN Normalized(SubSeq(h, 1, blank - 1))

\* positions, in scan order, of the headers that match target t
MatchingHeaders(t) ==
  LET hs == HeadersInScanOrder(fastq_dir)
  IN {k \in DOMAIN hs : HeaderIdentifier(hs[k]) = t}

\* the barcode tag a header line carries, if any
Tagged(h) == barcode_regex_search(h).matched

TagOf(h) == barcode_regex_search(h).group

CsvWritten == lk_pc = "done" /\ lk_log # <<>> /\ lk_log[Len(lk_log)] = "saved"

NoReadError == \A k \in DOMAIN lk_log : lk_log[k] # "read error"

\* the rows are one per target, keyed '@' + target
OneRowPerTarget ==
  /\ {row[1] : row \in output_data} = {<<"@">> \o t : t \in Targets}
  /\ Cardinality(output_data) = Cardinality(Targets)

ValueOf(t) == (CHOOSE row \in output_data : row[1] = <<"@">> \o t)[2]

\* C16 as claimed: the CSV has one row per distinct normalized target,
\* keyed '@' + target; its value is the barcode tag of a record whose
\* normalized header identifier is the target when some such record
\* carries a tag, and 'NA' when no record matches.
C16_ValueIsTagOfMatchingRecord ==
  (CsvWritten /\ NoReadError) =>
    /\ OneRowPerTarget
    /\ \A t \in Targets :
         LET hs == HeadersInScanOrder(fastq_dir)
             tagged == {k \in MatchingHeaders(t) : Tagged(hs[k])}
         IN IF tagged = {} THEN ValueOf(t) = NA
            ELSE \E k \in tagged : ValueOf(t) = TagOf(hs[k])

\* C16 amended: the CSV has one row per distinct normalized target, keyed
\* '@' + target.  A value other than 'NA' is the barcode tag of a record
\* whose normalized header identifier is the target, and the value is 'NA'
\* when no record matches.  When no archive fails to read, the value is
\* decided by the first matching record in scan order alone: its tag, or
\* 'NA' when that record carries none.
C16_ValueIsThatOfFirstMatchingRecord ==
  CsvWritten =>
    /\ OneRowPerTarget
    /\ \A t \in Targets :
         LET hs == HeadersInScanOrder(fastq_dir)
             first == CHOOSE k \in MatchingHeaders(t) :
                        \A j \in MatchingHeaders(t) : k <= j
         IN /\ ValueOf(t) # NA =>
                 \E k \in MatchingHeaders(t) : Tagged(hs[k]) /\ ValueOf(t) = TagOf(hs[k])
            /\ MatchingHeaders(t) = {} => ValueOf(t) = NA
            /\ (NoReadError /\ MatchingHeaders(t) # {}) =>
                 ValueOf(t) = IF Tagged(hs[first]) THEN TagOf(hs[first]) ELSE NA

\* C16 witness: targets a/1 and c, one archive with the record
\* "@a/1 barcode=X": the rows are @a -> X and @c -> NA
C16_Witness ==
  /\ CsvWritten
  /\ ids_file = << <<"a","/","1","\n">>, <<"c","\n">> >>
  /\ Len(fastq_dir) = 1
  /\ output_data = { << <<"@","a">>, <<"X">> >>, << <<"@","c">>, NA >> }

\* C16, the case the amendment is about: the first record of identifier a
\* carries no tag, a later one carries X, and the row of @a says NA
C16_WitnessUntaggedFirst ==
  /\ CsvWritten /\ NoReadError
  /\ Targets = {<<"a">>}
  /\ \E k \in MatchingHeaders(<<"a">>) : Tagged(HeadersInScanOrder(fastq_dir)[k])
  /\ output_data = { << <<"@","a">>, NA >> }

\* C17: in parallel mode a step changes the term list or the full-match
\* count only if it is the driver consuming a finished future in its
\* collection loop, and a step in which a worker finishes a batch changes
\* that one future alone: the term list (text, colour, patterns, counter),
\* the full-match count, the previews and every other future stay as they
\* were, and the future holds the worker's matches and counts as a value.
WorkerFinishes(b) ==
  /\ b \in DOMAIN futures
  /\ futures[b].state = "pending"
  /\ Len(futures') = Len(futures)
  /\ futures'[b].state \in {"done", "failed"}

DriverCollects(b) ==
  /\ pc = "par_collect"
  /\ b \in DOMAIN futures
  /\ futures[b].state = "done"
  /\ ~collected(b)
  /\ completed' = Append(completed, b)

C17_OnlyCollectChangesTotals ==
  [][ /\ (par_required_matches' # par_required_matches
            \/ par_found_count' # par_found_count) =>
           \E b \in DOMAIN futures : DriverCollects(b)
      /\ \A b \in DOMAIN futures :
           WorkerFinishes(b) =>
             /\ par_required_matches' = par_required_matches
             /\ par_found_count' = par_found_count
             /\ par_out' = par_out
             /\ completed' = completed
             /\ \A c \in DOMAIN futures : c # b => futures'[c] = futures[c]
             /\ futures'[b].batch = futures[b].batch
             /\ futures'[b].state = "done" =>
                  /\ DOMAIN futures'[b].result[1].individual_hits_counts =
                       {par_required_matches[i].term : i \in DOMAIN par_required_matches}
                  /\ Len(futures'[b].result[1].found_matches) <= Len(futures[b].batch)
    ]_vars

\* C17 witness: a worker has finished a batch with a hit and a full match
\* while another future holds its result and the driver has merged
\* nothing: every counter and the full-match count are still 0
C17_Witness ==
  /\ pc = "par_collect"
  /\ completed = <<>>
  /\ Len(futures) = 2
  /\ \A b \in DOMAIN futures :
       /\ futures[b].state = "done"
       /\ futures[b].result[1].found_matches # <<>>
  /\ par_found_count = 0
  /\ \A i \in DOMAIN par_required_matches :
       par_required_matches[i].total_individual_count = 0

\* C18: in a parallel run with several batches the driver has merged some
\* batch result before the last batch is submitted: once the reader is
\* exhausted and the driver is past its submissions, the list of consumed
\* futures is not empty.
C18_MergeBeforeLastSubmission ==
  (pc = "par_collect" /\ Len(futures) >= 2) => completed # <<>>

\* C19: the list a worker returns for a batch holds exactly the batch's
\* full-match records, each once, in batch order; and the sequential
\* previews are in archive order, each labelled with the identifier of the
\* record that matched (for a record whose header has no marker: a label
\* made from that record, not from another one).
OwnLabel(label, n) ==
  LET header == archive[n - 1]
  IN IF startswith_at(header)
     THEN label = first_token(strip(header))
     ELSE label \in {Unknown, <<"L","i","n","e"," ">> \o decimal(n),
                     first_token(strip(header))}

C19_ResultsInRecordOrder ==
  /\ \A b \in DOMAIN futures :
       futures[b].state = "done" =>
         LET batch == futures[b].batch
             found == futures[b].result[1].found_matches
             full == {r \in DOMAIN batch :
                        all_terms_hit(par_required_matches, strip(batch[r].sequence))}
         IN /\ Len(found) = Cardinality(full)
            /\ \E pos \in [DOMAIN found -> full] :
                 /\ \A j, k \in DOMAIN found : j < k => pos[j] < pos[k]
                 /\ \A k \in DOMAIN found :
                      /\ found[k].header_id = batch[pos[k]].header_id
                      /\ Uncoloured(found[k].text) = strip(batch[pos[k]].sequence)
  /\ pc = "seq_loop" =>
       LET met == FullMatchLines(line_number)
       IN \A k \in 1..ExpectedPreviews(Len(met), max_print_lines) :
            /\ seq_out[k].kind = "preview"
            /\ Uncoloured(seq_out[k].text) = strip(archive[met[k]])
            /\ OwnLabel(seq_out[k].id, met[k])

\* C20: in the identifier lookup the scan stops as soon as the
\* remaining-targets set is empty: from a state of the scan in which every
\* target has been found, no step reads a further line of the current
\* archive or opens a later archive.
C20_ScanStopsWhenAllFound ==
  [][ (lk_pc \in {"files", "lines"} /\ ids_to_find = {}) =>
        /\ line_count' = line_count
        /\ file_index' = file_index ]_vars

\* C21: throughout the lookup the remaining-targets set is a subset of the
\* targets and a remaining target still has the value 'NA'; a step removes
\* an identifier from the set exactly when it reads a header line of that
\* identifier while the identifier is still remaining (its first matching
\* record), recording that header's tag or 'NA'; and the value of a target
\* no longer remaining never changes again.
ReadsHeaderOf(t) ==
  /\ lk_pc = "lines"
  /\ line_count' = line_count + 1
  /\ line_count % 4 = 0
  /\ LET h == fastq_files[file_index].lines[line_count + 1]
     IN /\ Head(h) = "@"
        /\ h[2] \notin {" ", "\t"}
        /\ HeaderIdentifier(h) = t

C21_FirstMatchDecides ==
  [][ /\ ids_to_find' \subseteq target_ids'
      /\ \A t \in ids_to_find' : results'[t] = NA
      /\ \A t \in target_ids :
           /\ (t \in ids_to_find /\ ReadsHeaderOf(t)) =>
                LET h == fastq_files[file_index].lines[line_count + 1]
                IN /\ t \notin ids_to_find'
                   /\ results'[t] = IF Tagged(h) THEN TagOf(h) ELSE NA
           /\ (t \in ids_to_find /\ ~ReadsHeaderOf(t)) => t \in ids_to_find'
           /\ t \notin ids_to_find =>
                /\ t \notin ids_to_find'
                /\ results'[t] = results[t]
    ]_vars

\* C21 witness: target a was recorded as 'NA' from a header without a tag,
\* and the scan has just read a later header of a that carries a tag
C21_Witness ==
  /\ lk_pc = "lines"
  /\ line_count = 5
  /\ <<"a">> \in target_ids
  /\ <<"a">> \notin ids_to_find
  /\ results[<<"a">>] = NA
  /\ HeaderIdentifier(fastq_files[file_index].lines[1]) = <<"a">>
  /\ ~Tagged(fastq_files[file_index].lines[1])
  /\ HeaderIdentifier(fastq_files[file_index].lines[5]) = <<"a">>
  /\ Tagged(fastq_files[file_index].lines[5])

\* C22: for every preview limit and every run, the 'printed' figure of the
\* final summary, min(full-match count, limit), is the number of preview
\* lines the strategy printed.
C22_PrintedFigureIsPreviewCount ==
  /\ seq_report # <<>> => seq_report[1].lines_printed = PreviewsIn(seq_out)
  /\ par_report # <<>> => par_report[1].lines_printed = PreviewsIn(par_out)

\* C23: on an empty archive both strategies finish without an error, return
\* zero records and zero full matches, leave every term counter at zero and
\* print nothing but a summary whose percentage is 0 (the guarded branch of
\* the summary, which does not divide).
ZeroStatistics(ret, report, required_matches) ==
  /\ ret # <<>> => ret = <<0, 0>>
  /\ \A i \in DOMAIN required_matches :
       /\ required_matches[i].total_individual_count = 0
       /\ report # <<>> => report[1].term_hits[i] = 0
  /\ report # <<>> =>
       /\ report[1].total_reads = 0
       /\ report[1].found_count = 0
       /\ report[1].percentage_match = 0
C23_EmptyArchiveZeroStatistics ==
  archive = <<>> =>
    /\ stderr = <<>>
    /\ seq_out = <<>> \/ seq_out = <<configuration_error>>
    /\ par_out = <<>> \/ par_out = <<configuration_error>>
    /\ futures = <<>>
    /\ ZeroStatistics(seq_ret, seq_report, seq_required_matches)
    /\ ZeroStatistics(par_ret, par_report, par_required_matches)
    /\ (pc = "done" /\ seq_required_matches # <<>>) =>
         seq_report # <<>> /\ par_report # <<>>
C23_Witness ==
  /\ archive = <<>>
  /\ pc = "done"
  /\ seq_ret = <<0, 0>> /\ par_ret = <<0, 0>>
  /\ seq_report # <<>> /\ par_report # <<>>
  /\ Len(seq_required_matches) = 2

====
